---- MODULE Spec2Model ----
(***************************************************************************)
(* Model of the classes of Lab1/GLprimer: the TriangleSoup mesh            *)
(* (TriangleSoup.hpp, TriangleSoup.cpp) with its CPU side vertex and index *)
(* arrays, its three OpenGL handles and the OpenGL objects it generates    *)
(* and deletes; the Texture with its TGA decoder (Texture.cpp); the Shader *)
(* with its program object (Shader.cpp); the MouseRotator (Rotator.cpp).   *)
(*                                                                         *)
(* Conventions                                                             *)
(*  - A GLfloat is modelled by the integer 1000*f (0.5f is 500), a product *)
(*    of two floats by FMul, cos and sin of k*pi/n by a table.             *)
(*  - C++ arrays are 0-based: At(a, p) is a[p], a TLA+ sequence holds a[p] *)
(*    at position p+1.                                                     *)
(*  - A loop that stores into an array is modelled by the sequence of its  *)
(*    stores <<position, value>> in program order (ApplyWrites).           *)
(*  - A line of an OBJ file is a record: tok is the first whitespace       *)
(*    delimited token as a sequence of characters (<<>> for a blank or     *)
(*    whitespace-only line), indent tells whether whitespace precedes it,  *)
(*    args are the numeric fields after it (v, vn, vt) and corners the     *)
(*    slash separated index groups after it (f).                           *)
(*  - The angles of the MouseRotator are integers in units of pi/PiUnits;  *)
(*    the window sizes divide PiUnits, so pi * move / size is an integer.  *)
(***************************************************************************)
EXTENDS Integers, Sequences, FiniteSets, TLC

VARIABLES
    vao_,            \* GLuint vao_
    vertexbuffer_,   \* GLuint vertexbuffer_
    indexbuffer_,    \* GLuint indexbuffer_
    nverts_,         \* int nverts_
    ntris_,          \* int ntris_
    vertexarray_,    \* std::vector<GLfloat> vertexarray_
    indexarray_,     \* std::vector<GLuint> indexarray_
    glVertexArrays,  \* names of the vertex array objects alive in the GL context
    glBuffers,       \* names of the buffer objects alive in the GL context
    call,            \* the last TriangleSoup member function called, with its arguments
    textureID_,      \* GLuint textureID_ of the Texture
    image_,          \* ImageData image_ of the Texture
    glTextures,      \* names of the texture objects alive in the GL context
    load,            \* the last createTexture call: its file and what the decoder returned
    programID_,      \* GLuint programID_ of the Shader
    glPrograms,      \* names of the program objects alive in the GL context
    ownPrograms,     \* the programs alive that this Shader created
    build,           \* the last createShader call: what it deleted, its files, the link status
    phi_,            \* double phi_ of the MouseRotator, in units of pi / PiUnits
    theta_,          \* double theta_ of the MouseRotator, in units of pi / PiUnits
    lastX_,          \* double lastX_
    lastY_,          \* double lastY_
    leftPressed_,    \* bool leftPressed_
    rightPressed_    \* bool rightPressed_

soupVars == <<vao_, vertexbuffer_, indexbuffer_, nverts_, ntris_, vertexarray_,
              indexarray_, glVertexArrays, glBuffers, call>>

textureVars == <<textureID_, image_, glTextures, load>>

shaderVars == <<programID_, glPrograms, ownPrograms, build>>

rotatorVars == <<phi_, theta_, lastX_, lastY_, leftPressed_, rightPressed_>>

vars == <<soupVars, textureVars, shaderVars, rotatorVars>>

\* ------------------------------------------------------------------ bounds
MaxSegments == 3      \* createSphere is called with segments in 0..MaxSegments
MaxVaos == 2          \* at most this many vertex array objects are alive
MaxPixelBytes == 8    \* pixel bytes that follow the descriptor of a TGA file
MaxLines == 3         \* lines that follow the data block of an imported file
MaxBuilds == 4        \* createShader calls counted on one Shader
MaxCursorX == 5       \* the cursor's x position is in 0..MaxCursorX
MaxCursorY == 2       \* the cursor's y position is in 0..MaxCursorY
MaxDrift == 8         \* poll is followed while phi_ is at least -MaxDrift units

\* ----------------------------------------------------------------- helpers
Min(a, b) == IF a < b THEN a ELSE b

Max(a, b) == IF a > b THEN a ELSE b

Range(s) == {s[i] : i \in 1..Len(s)}

\* a[p] for a 0-based position p
At(a, p) == a[p + 1]

\* std::vector::resize(n) on a vector of numbers: the first min(size, n)
\* elements are kept, new elements are value-initialized to 0
Resize(a, n) ==
    SubSeq(a, 1, Min(Len(a), n)) \o [p \in 1..(n - Min(Len(a), n)) |-> 0]

\* the stores ws[lo..hi] applied to a in order, ws = << <<position, value>>, ... >>
RECURSIVE ApplyRange(_, _, _, _)
ApplyRange(a, ws, lo, hi) ==
    IF lo > hi THEN a
    ELSE IF lo = hi
            THEN IF ws[lo][1] >= 0 /\ ws[lo][1] < Len(a)
                    THEN [a EXCEPT ![ws[lo][1] + 1] = ws[lo][2]]
                    ELSE a
    ELSE LET mid == (lo + hi) \div 2
             left == ApplyRange(a, ws, lo, mid)
         IN  \* the test makes TLC evaluate left before the second half
             IF Len(left) = Len(a) THEN ApplyRange(left, ws, mid + 1, hi) ELSE left

\* the stores ws applied to a in program order
ApplyWrites(a, ws) == ApplyRange(a, ws, 1, Len(ws))

\* the float literal n.0f, 0.5f
F(n) == 1000 * n

Half == 500

\* float product
FMul(a, b) == (a * b) \div 1000

\* ------------------------------------------------------------------ OpenGL
\* glGenVertexArrays / glGenBuffers: a name that is not in use
GenName(live) == CHOOSE n \in 1..(Cardinality(live) + 1) :
                    n \notin live /\ \A m \in 1..(n - 1) : m \in live

\* The object as a record, to write the member functions as operators
Soup == [vao_ |-> vao_, vertexbuffer_ |-> vertexbuffer_,
         indexbuffer_ |-> indexbuffer_, nverts_ |-> nverts_, ntris_ |-> ntris_,
         vertexarray_ |-> vertexarray_, indexarray_ |-> indexarray_,
         glVertexArrays |-> glVertexArrays, glBuffers |-> glBuffers]

SetSoup(s) ==
    /\ vao_' = s.vao_
    /\ vertexbuffer_' = s.vertexbuffer_
    /\ indexbuffer_' = s.indexbuffer_
    /\ nverts_' = s.nverts_
    /\ ntris_' = s.ntris_
    /\ vertexarray_' = s.vertexarray_
    /\ indexarray_' = s.indexarray_
    /\ glVertexArrays' = s.glVertexArrays
    /\ glBuffers' = s.glBuffers

\* the object is s
SoupIs(s) ==
    /\ vao_ = s.vao_
    /\ vertexbuffer_ = s.vertexbuffer_
    /\ indexbuffer_ = s.indexbuffer_
    /\ nverts_ = s.nverts_
    /\ ntris_ = s.ntris_
    /\ vertexarray_ = s.vertexarray_
    /\ indexarray_ = s.indexarray_
    /\ glVertexArrays = s.glVertexArrays
    /\ glBuffers = s.glBuffers

\* TriangleSoup::TriangleSoup()
EmptySoup == [vao_ |-> 0, vertexbuffer_ |-> 0, indexbuffer_ |-> 0,
              nverts_ |-> 0, ntris_ |-> 0,
              vertexarray_ |-> <<>>, indexarray_ |-> <<>>,
              glVertexArrays |-> {}, glBuffers |-> {}]

\* glGenVertexArrays(1, &vao_); glBindVertexArray(vao_);
\* glGenBuffers(1, &vertexbuffer_); glGenBuffers(1, &indexbuffer_);
\* and the two glBindBuffer calls that make the names buffer objects
GenObjects(s) ==
    LET va == GenName(s.glVertexArrays)
        vb == GenName(s.glBuffers)
        ib == GenName(s.glBuffers \cup {vb})
    IN  [s EXCEPT !.vao_ = va, !.vertexbuffer_ = vb, !.indexbuffer_ = ib,
                  !.glVertexArrays = @ \cup {va},
                  !.glBuffers = @ \cup {vb, ib}]

\* mutant: clean() that leaves the counts as they are
CleanKeepsCounts(s) ==
    [s EXCEPT !.vertexarray_ = <<>>, !.indexarray_ = <<>>,
              !.glVertexArrays = @ \ {s.vao_},
              !.glBuffers = @ \ {s.vertexbuffer_, s.indexbuffer_},
              !.vao_ = 0, !.vertexbuffer_ = 0, !.indexbuffer_ = 0]

\* mutant: clean() that forgets the index buffer
CleanLeavesIndexBuffer(s) ==
    [s EXCEPT !.vertexarray_ = <<>>, !.indexarray_ = <<>>,
              !.nverts_ = 0, !.ntris_ = 0,
              !.glVertexArrays = @ \ {s.vao_},
              !.glBuffers = @ \ {s.vertexbuffer_},
              !.vao_ = 0, !.vertexbuffer_ = 0]

\* TriangleSoup::clean()
Clean(s) ==
    LET s1 == IF s.vao_ \in s.glVertexArrays
                 THEN [s EXCEPT !.glVertexArrays = @ \ {s.vao_}, !.vao_ = 0]
                 ELSE s
        s2 == IF s1.vertexbuffer_ \in s1.glBuffers
                 THEN [s1 EXCEPT !.glBuffers = @ \ {s1.vertexbuffer_},
                                 !.vertexbuffer_ = 0]
                 ELSE s1
        s3 == IF s2.indexbuffer_ \in s2.glBuffers
                 THEN [s2 EXCEPT !.glBuffers = @ \ {s2.indexbuffer_},
                                 !.indexbuffer_ = 0]
                 ELSE s2
    IN  [s3 EXCEPT !.vertexarray_ = <<>>, !.indexarray_ = <<>>,
                   !.nverts_ = 0, !.ntris_ = 0]

\* vertex_array_data and index_array_data of createTriangle
TriangleVertexData ==
    << -F(1), -F(1), 0, 0, 0, F(1), 0, 0,
       F(1), -F(1), 0, 0, 0, F(1), F(1), 0,
       0, F(1), 0, 0, 0, F(1), Half, F(1) >>

TriangleIndexData == <<0, 1, 2>>

\* for (int i = 0; i < n; i++) { array[i] = data[i]; }
CopyWrites(data, n) == [k \in 1..n |-> <<k - 1, data[k]>>]

\* TriangleSoup::createTriangle()
CreateTriangle(s) ==
    LET nv == 3
        nt == 1
        s1 == [s EXCEPT !.nverts_ = nv, !.ntris_ = nt,
                        !.vertexarray_ = ApplyWrites(Resize(@, 8 * nv),
                                            CopyWrites(TriangleVertexData, 8 * nv)),
                        !.indexarray_ = ApplyWrites(Resize(@, 3 * nt),
                                            CopyWrites(TriangleIndexData, 3 * nt))]
    IN  GenObjects(s1)

\* vertex_array_data and index_array_data of createBox
BoxVertexData(x, y, z) ==
    << -x, -y, -z, 0, 0, F(1), 0, 0,
       x, -y, -z, 0, 0, F(1), 0, 0,
       -x, y, -z, 0, 0, F(1), 0, 0,
       x, y, -z, 0, 0, F(1), 0, 0,
       -x, -y, z, 0, 0, F(1), 0, 0,
       x, -y, z, 0, 0, F(1), 0, 0,
       -x, y, z, 0, 0, F(1), 0, 0,
       x, y, z, 0, 0, F(1), 0, 0 >>

\* mutant: the first triangle runs through the box, from corner 0 to corner 7
BoxIndexDataCrossing ==
    <<0, 7, 1, 0, 2, 3, 1, 4, 0, 1, 5, 4, 4, 2, 0, 4, 6, 2,
      1, 3, 7, 1, 7, 5, 7, 2, 6, 7, 3, 2, 4, 5, 7, 4, 7, 6>>

BoxIndexData ==
    <<0, 3, 1, 0, 2, 3, 1, 4, 0, 1, 5, 4, 4, 2, 0, 4, 6, 2,
      1, 3, 7, 1, 7, 5, 7, 2, 6, 7, 3, 2, 4, 5, 7, 4, 7, 6>>

\* TriangleSoup::createBox(xsize, ysize, zsize)
CreateBox(s, x, y, z) ==
    LET nv == 8
        nt == 12
        s1 == [s EXCEPT !.nverts_ = nv, !.ntris_ = nt,
                        !.vertexarray_ = ApplyWrites(Resize(@, 8 * nv),
                                            CopyWrites(BoxVertexData(x, y, z), 8 * nv)),
                        !.indexarray_ = ApplyWrites(Resize(@, 3 * nt),
                                            CopyWrites(BoxIndexData, 3 * nt))]
    IN  GenObjects(s1)

\* round(1000 * cos(k*pi/n)) and round(1000 * sin(k*pi/n)), n = 1..6, k = 0..2n
CosTable ==
    << << 1000, -1000, 1000 >>,
       << 1000, 0, -1000, 0, 1000 >>,
       << 1000, 500, -500, -1000, -500, 500, 1000 >>,
       << 1000, 707, 0, -707, -1000, -707, 0, 707, 1000 >>,
       << 1000, 809, 309, -309, -809, -1000, -809, -309, 309, 809, 1000 >>,
       << 1000, 866, 500, 0, -500, -866, -1000, -866, -500, 0, 500, 866, 1000 >> >>

SinTable ==
    << << 0, 0, 0 >>,
       << 0, 1000, 0, -1000, 0 >>,
       << 0, 866, 866, 0, -866, -866, 0 >>,
       << 0, 707, 1000, 707, 0, -707, -1000, -707, 0 >>,
       << 0, 588, 951, 951, 588, 0, -588, -951, -951, -588, 0 >>,
       << 0, 500, 866, 1000, 866, 500, 0, -500, -866, -1000, -866, -500, 0 >> >>

\* static_cast<float>(std::cos(k / n * M_PI)), static_cast<float>(std::sin(..))
Cos(k, n) == CosTable[n][k + 1]

Sin(k, n) == SinTable[n][k + 1]

\* mutant: segments is not clamped
VsegsUnclamped(segments) == segments

\* const int vsegs = std::max(segments, 2);
Vsegs(segments) == Max(segments, 2)

\* const int hsegs = vsegs * 2;
Hsegs(vsegs) == vsegs * 2

\* nverts_ = 1 + (vsegs - 1) * (hsegs + 1) + 1;
SphereNverts(vsegs, hsegs) == 1 + (vsegs - 1) * (hsegs + 1) + 1

\* ntris_ = hsegs + (vsegs - 2) * hsegs * 2 + hsegs;
SphereNtris(vsegs, hsegs) == hsegs + (vsegs - 2) * hsegs * 2 + hsegs

\* the stores into vertexarray_ for the two poles
PoleWrites(radius, nverts) ==
    LET base == (nverts - 1) * 8
    IN  << <<0, 0>>, <<1, 0>>, <<2, radius>>, <<3, 0>>, <<4, 0>>, <<5, F(1)>>,
           <<6, Half>>, <<7, F(1)>>,
           <<base, 0>>, <<base + 1, 0>>, <<base + 2, -radius>>, <<base + 3, 0>>,
           <<base + 4, 0>>, <<base + 5, -F(1)>>, <<base + 6, Half>>,
           <<base + 7, 0>> >>

\* the eight stores of ring j, longitude i
RingVertex(radius, vsegs, hsegs, j, i) ==
    LET z == Cos(j + 1, vsegs)
        R == Sin(j + 1, vsegs)
        x == FMul(R, Cos(i, vsegs))
        y == FMul(R, Sin(i, vsegs))
    IN  << FMul(radius, x), FMul(radius, y), FMul(radius, z), x, y, z,
           (F(1) * i) \div hsegs, F(1) - (F(1) * (j + 1)) \div vsegs >>

\* for (j = 0; j < vsegs - 1; j++) for (i = 0; i <= hsegs; i++) { ... }
RingWrites(radius, vsegs, hsegs) ==
    IF vsegs - 1 <= 0 \/ hsegs < 0 THEN <<>>
    ELSE [k \in 1..((vsegs - 1) * (hsegs + 1) * 8) |->
            LET q == k - 1
                j == q \div (8 * (hsegs + 1))
                i == (q \div 8) % (hsegs + 1)
                c == q % 8
                base == (1 + j * (hsegs + 1) + i) * 8
            IN  <<base + c, RingVertex(radius, vsegs, hsegs, j, i)[c + 1]>>]

\* mutant: the top fan starts its ring one vertex early, at the pole
TopCapWritesFromPole(hsegs) ==
    IF hsegs <= 0 THEN <<>>
    ELSE [k \in 1..(3 * hsegs) |->
            LET i == (k - 1) \div 3
                c == (k - 1) % 3
            IN  <<3 * i + c, IF c = 0 THEN 0 ELSE IF c = 1 THEN i ELSE 1 + i>>]

\* Top cap: for (i = 0; i < hsegs; i++) { ... }
TopCapWrites(hsegs) ==
    IF hsegs <= 0 THEN <<>>
    ELSE [k \in 1..(3 * hsegs) |->
            LET i == (k - 1) \div 3
                c == (k - 1) % 3
            IN  <<3 * i + c, IF c = 0 THEN 0 ELSE IF c = 1 THEN 1 + i ELSE 2 + i>>]

\* Middle part: for (j = 0; j < vsegs - 2; j++) for (i = 0; i < hsegs; i++) { ... }
MiddleWrites(vsegs, hsegs) ==
    IF vsegs - 2 <= 0 \/ hsegs <= 0 THEN <<>>
    ELSE [k \in 1..((vsegs - 2) * hsegs * 6) |->
            LET q == k - 1
                j == q \div (6 * hsegs)
                i == (q \div 6) % hsegs
                c == q % 6
                base == 3 * (hsegs + 2 * (j * hsegs + i))
                i0 == 1 + j * (hsegs + 1) + i
            IN  <<base + c,
                  CASE c = 0 -> i0
                    [] c = 1 -> i0 + hsegs + 1
                    [] c = 2 -> i0 + 1
                    [] c = 3 -> i0 + 1
                    [] c = 4 -> i0 + hsegs + 1
                    [] OTHER -> i0 + hsegs + 2>>]

\* mutant: the bottom cap is stored right after the top cap
BottomCapWritesAfterTop(vsegs, hsegs, nverts) ==
    IF hsegs <= 0 THEN <<>>
    ELSE [k \in 1..(3 * hsegs) |->
            LET i == (k - 1) \div 3
                c == (k - 1) % 3
                base == 3 * hsegs
            IN  <<base + 3 * i + c,
                  IF c = 0 THEN nverts - 1
                  ELSE IF c = 1 THEN nverts - 2 - i ELSE nverts - 3 - i>>]

\* Bottom cap: for (i = 0; i < hsegs; i++) { ... }
BottomCapWrites(vsegs, hsegs, nverts) ==
    IF hsegs <= 0 THEN <<>>
    ELSE [k \in 1..(3 * hsegs) |->
            LET i == (k - 1) \div 3
                c == (k - 1) % 3
                base == 3 * (hsegs + 2 * (vsegs - 2) * hsegs)
            IN  <<base + 3 * i + c,
                  IF c = 0 THEN nverts - 1
                  ELSE IF c = 1 THEN nverts - 2 - i ELSE nverts - 3 - i>>]

\* TriangleSoup::createSphere(radius, segments)
CreateSphere(s, radius, segments) ==
    LET s0 == Clean(s)
        vsegs == Vsegs(segments)
        hsegs == Hsegs(vsegs)
        nv == SphereNverts(vsegs, hsegs)
        nt == SphereNtris(vsegs, hsegs)
        va == ApplyWrites(ApplyWrites(Resize(s0.vertexarray_, Max(nv * 8, 0)),
                                      PoleWrites(radius, nv)),
                          RingWrites(radius, vsegs, hsegs))
        ia == ApplyWrites(ApplyWrites(ApplyWrites(
                              Resize(s0.indexarray_, Max(nt * 3, 0)),
                              TopCapWrites(hsegs)),
                              MiddleWrites(vsegs, hsegs)),
                          BottomCapWrites(vsegs, hsegs, nv))
    IN  GenObjects([s0 EXCEPT !.nverts_ = nv, !.ntris_ = nt,
                              !.vertexarray_ = va, !.indexarray_ = ia])

\* ------------------------------------------------------------ OBJ file text
\* sscanf(line, "%2s ", tag): the first two characters of the first token;
\* on a line without a token nothing is stored and tag keeps its value
Tag(line, tag) ==
    IF line.tok = <<>> THEN tag
    ELSE SubSeq(line.tok, 1, Min(2, Len(line.tok)))

DigitChars == <<"0", "1", "2", "3", "4", "5", "6", "7", "8", "9">>

IsDigits(cs) == cs # <<>> /\ \A i \in 1..Len(cs) : cs[i] \in Range(DigitChars)

DigitValue(c) == (CHOOSE d \in 1..10 : DigitChars[d] = c) - 1

RECURSIVE NumberValue(_)
NumberValue(cs) ==
    IF cs = <<>> THEN 0
    ELSE 10 * NumberValue(SubSeq(cs, 1, Len(cs) - 1)) + DigitValue(cs[Len(cs)])

\* sscanf(line, "<tag> %f %f %f", ..) with want conversions: the literal tag
\* must start the line, the conversions take the text after it. n is the
\* return value (-1 is EOF), vals the values stored
ScanFloats(line, taglen, want) ==
    LET rest == SubSeq(line.tok, taglen + 1, Len(line.tok))
        fields == IF rest = <<>> THEN line.args
                  ELSE IF IsDigits(rest) THEN <<F(NumberValue(rest))>> \o line.args
                  ELSE <<>>
    IN  IF line.indent THEN [n |-> 0, vals |-> <<>>]
        ELSE IF fields = <<>>
                THEN [n |-> IF rest = <<>> THEN -1 ELSE 0, vals |-> <<>>]
        ELSE [n |-> Min(Len(fields), want),
              vals |-> SubSeq(fields, 1, Min(Len(fields), want))]

\* the %d/%d/%d groups of sscanf(line, "f %d/%d/%d %d/%d/%d %d/%d/%d", ..):
\* the integers converted from corner k on, until a group is not v/t/n
RECURSIVE ScanCorners(_, _)
ScanCorners(corners, k) ==
    IF k > 3 \/ k > Len(corners) THEN <<>>
    ELSE IF Len(corners[k]) = 3
            THEN corners[k] \o ScanCorners(corners, k + 1)
    ELSE SubSeq(corners[k], 1, Min(Len(corners[k]), 3))

\* sscanf(line, "f %d/%d/%d %d/%d/%d %d/%d/%d", &v1, &t1, &n1, ..)
ScanFace(line) ==
    LET ints == IF line.tok = <<"f">> THEN ScanCorners(line.corners, 1) ELSE <<>>
    IN  IF line.indent THEN [n |-> 0, vals |-> <<>>]
        ELSE IF ints = <<>> THEN [n |-> -1, vals |-> <<>>]
        ELSE [n |-> Len(ints), vals |-> ints]

NoCounts == [numverts |-> 0, numnormals |-> 0, numtexcoords |-> 0, numfaces |-> 0]

\* first pass of readOBJ: while (fgets(line, 256, objfile)) { ... }
\* tag is the content of char tag[3] left by the previous line
RECURSIVE CountLines(_, _, _)
CountLines(file, tag, c) ==
    IF file = <<>> THEN c
    ELSE LET t == Tag(Head(file), tag)
             c1 == CASE t = <<"v">> -> [c EXCEPT !.numverts = @ + 1]
                     [] t = <<"v", "n">> -> [c EXCEPT !.numnormals = @ + 1]
                     [] t = <<"v", "t">> -> [c EXCEPT !.numtexcoords = @ + 1]
                     [] t = <<"f">> -> [c EXCEPT !.numfaces = @ + 1]
                     [] OTHER -> c
         IN  CountLines(Tail(file), t, c1)

\* a[p] of a std::vector read with operator[]: outside the vector the read is
\* undefined and yields garbage
ReadAt(a, p, garbage) == IF p >= 0 /\ p < Len(a) THEN a[p + 1] ELSE garbage

\* mutant: the 1-based indices of the file are used as they are
FaceVertexWritesOneBased(st, ints, garbage) ==
    LET currentv == 8 * 3 * st.i_f
    IN  [k \in 1..24 |->
            LET corner == (k - 1) \div 8
                c == (k - 1) % 8
                v == ints[3 * corner + 1]
                t == ints[3 * corner + 2]
                n == ints[3 * corner + 3]
            IN  <<currentv + (k - 1),
                  IF c < 3 THEN ReadAt(st.verts, 3 * v + c, garbage)
                  ELSE IF c < 6 THEN ReadAt(st.normals, 3 * n + (c - 3), garbage)
                  ELSE ReadAt(st.texcoords, 2 * t + (c - 6), garbage)>>]

\* the stores of one accepted face line, ints = v1,t1,n1,v2,t2,n2,v3,t3,n3
FaceVertexWrites(st, ints, garbage) ==
    LET currentv == 8 * 3 * st.i_f
    IN  [k \in 1..24 |->
            LET corner == (k - 1) \div 8
                c == (k - 1) % 8
                v == ints[3 * corner + 1] - 1
                t == ints[3 * corner + 2] - 1
                n == ints[3 * corner + 3] - 1
            IN  <<currentv + (k - 1),
                  IF c < 3 THEN ReadAt(st.verts, 3 * v + c, garbage)
                  ELSE IF c < 6 THEN ReadAt(st.normals, 3 * n + (c - 3), garbage)
                  ELSE ReadAt(st.texcoords, 2 * t + (c - 6), garbage)>>]

FaceIndexWrites(st) ==
    << <<3 * st.i_f, 3 * st.i_f>>, <<3 * st.i_f + 1, 3 * st.i_f + 1>>,
       <<3 * st.i_f + 2, 3 * st.i_f + 2>> >>

\* whether an accepted face line reads outside verts, normals or texcoords
FaceReadsOutside(st, ints) ==
    \E corner \in 0..2 :
        \/ ints[3 * corner + 1] - 1 < 0
        \/ 3 * (ints[3 * corner + 1] - 1) + 2 >= Len(st.verts)
        \/ ints[3 * corner + 2] - 1 < 0
        \/ 2 * (ints[3 * corner + 2] - 1) + 1 >= Len(st.texcoords)
        \/ ints[3 * corner + 3] - 1 < 0
        \/ 3 * (ints[3 * corner + 3] - 1) + 2 >= Len(st.normals)

\* the values sscanf stored at &a[base], &a[base + 1], ..
ScanWrites(base, vals) == [k \in 1..Len(vals) |-> <<base + k - 1, vals[k]>>]

\* one iteration of the second loop of readOBJ
ParseLine(line, st, garbage) ==
    LET tag == Tag(line, <<>>)
    IN  CASE tag = <<"v">> ->
               LET r == ScanFloats(line, 1, 3)
                   a == ApplyWrites(st.verts, ScanWrites(3 * st.i_v, r.vals))
               IN  IF r.n # 3 THEN [st EXCEPT !.verts = a, !.readerror = 1]
                   ELSE [st EXCEPT !.verts = a, !.i_v = @ + 1]
          [] tag = <<"v", "n">> ->
               LET r == ScanFloats(line, 2, 3)
                   a == ApplyWrites(st.normals, ScanWrites(3 * st.i_n, r.vals))
               IN  IF r.n # 3 THEN [st EXCEPT !.normals = a, !.readerror = 1]
                   ELSE [st EXCEPT !.normals = a, !.i_n = @ + 1]
          [] tag = <<"v", "t">> ->
               LET r == ScanFloats(line, 2, 2)
                   a == ApplyWrites(st.texcoords, ScanWrites(2 * st.i_t, r.vals))
               IN  IF r.n # 2 THEN [st EXCEPT !.texcoords = a, !.readerror = 1]
                   ELSE [st EXCEPT !.texcoords = a, !.i_t = @ + 1]
          [] tag = <<"f">> ->
               LET r == ScanFace(line)
               IN  IF r.n # 9 THEN [st EXCEPT !.readerror = 1]
                   ELSE [st EXCEPT
                           !.va = ApplyWrites(@, FaceVertexWrites(st, r.vals, garbage)),
                           !.ia = ApplyWrites(@, FaceIndexWrites(st)),
                           !.oob = @ \/ FaceReadsOutside(st, r.vals),
                           !.i_f = @ + 1]
          [] OTHER -> st

\* second pass of readOBJ: while (fgets(line, 256, objfile)) { ... break ... }
RECURSIVE ParseLines(_, _, _)
ParseLines(file, st, garbage) ==
    IF file = <<>> \/ st.readerror = 1 THEN st
    ELSE ParseLines(Tail(file), ParseLine(Head(file), st, garbage), garbage)

\* readOBJ on a file that opens, up to fclose: the locals after the second pass
ReadOBJLocals(s, file, tag0, garbage) ==
    LET c == CountLines(file, tag0, NoCounts)
    IN  ParseLines(file,
                   [va |-> Resize(s.vertexarray_, 8 * 3 * c.numfaces),
                    ia |-> Resize(s.indexarray_, 3 * c.numfaces),
                    numfaces |-> c.numfaces,
                    i_f |-> 0,
                    verts |-> Resize(<<>>, 3 * c.numverts),
                    normals |-> Resize(<<>>, 3 * c.numnormals),
                    texcoords |-> Resize(<<>>, 2 * c.numtexcoords),
                    i_v |-> 0, readerror |-> 0, i_n |-> 0, i_t |-> 0,
                    oob |-> FALSE],
                   garbage)

\* TriangleSoup::readOBJ(filename): exists tells whether fopen succeeds, file
\* is the text, tag0 the uninitialized content of tag, garbage what a read
\* outside a vector yields. soup is the object the call leaves, readerror the
\* local of that name, oob whether a face line read outside a vector
ReadOBJ(s, exists, file, tag0, garbage) ==
    IF ~exists THEN [readerror |-> 0, oob |-> FALSE, soup |-> s]
    ELSE LET st == ReadOBJLocals(s, file, tag0, garbage)
             s1 == [s EXCEPT !.vertexarray_ = st.va, !.indexarray_ = st.ia,
                             !.nverts_ = 3 * st.numfaces, !.ntris_ = st.numfaces]
         IN  [readerror |-> st.readerror, oob |-> st.oob,
              soup |-> IF st.readerror = 1 THEN Clean(s1) ELSE GenObjects(s1)]

\* ------------------------------------------------------------------ inputs
Line(tok, indent, args, corners) ==
    [tok |-> tok, args |-> args, indent |-> indent, corners |-> corners]

VLine(vals) == Line(<<"v">>, FALSE, vals, <<>>)

NLine(vals) == Line(<<"v", "n">>, FALSE, vals, <<>>)

TLine(vals) == Line(<<"v", "t">>, FALSE, vals, <<>>)

FLine(corners) == Line(<<"f">>, FALSE, <<>>, corners)

BlankLine == Line(<<>>, FALSE, <<>>, <<>>)

CommentLine == Line(<<"#">>, FALSE, <<>>, <<>>)

\* f 2/1/2 1/2/1 1/1/1
FaceA == FLine(<< <<2, 1, 2>>, <<1, 2, 1>>, <<1, 1, 1>> >>)

\* f 3/1/1 2/2/2 1/1/1
FaceB == FLine(<< <<3, 1, 1>>, <<2, 2, 2>>, <<1, 1, 1>> >>)

\* f 2/1/2 1/2/1 1/1/1 2/2/2
QuadLine == FLine(<< <<2, 1, 2>>, <<1, 2, 1>>, <<1, 1, 1>>, <<2, 2, 2>> >>)

\* f 2/1/2 1/2/1
ShortFace == FLine(<< <<2, 1, 2>>, <<1, 2, 1>> >>)

\* two v lines, two vn lines and two vt lines that open a file
DataBlock == << VLine(<<11, 12, 13>>), VLine(<<21, 22, 23>>),
                NLine(<<31, 32, 33>>), NLine(<<41, 42, 43>>),
                TLine(<<51, 52>>), TLine(<<61, 62>>) >>

\* the lines that follow the data block
ObjLines == { VLine(<<71, 72, 73>>), VLine(<<71, 72, 73, 74>>), TLine(<<91>>),
              FaceA, FaceB, QuadLine, ShortFace, BlankLine, CommentLine }

SeqsUpTo(S, n) == UNION {[1..k -> S] : k \in 0..n}

Files == {h \o b : h \in {<<>>, DataBlock}, b \in SeqsUpTo(ObjLines, MaxLines)}

\* the files read in the life cycle of a mesh: an empty file, one and two
\* faces, a blank line after the face, a malformed face after the face, a
\* quad, a malformed v line, a blank first line, a face without data lines
LifeFiles == { <<>>,
               DataBlock \o <<FaceA>>,
               DataBlock \o <<FaceA, FaceA>>,
               DataBlock \o <<FaceA, BlankLine>>,
               DataBlock \o <<FaceA, ShortFace>>,
               DataBlock \o <<QuadLine>>,
               DataBlock \o <<VLine(<<71, 72>>)>>,
               <<BlankLine>> \o DataBlock,
               <<FaceA>> }

\* what the uninitialized char tag[3] may hold when the first line is blank
UninitTags == {<<>>, <<"v">>, <<"v", "n">>, <<"v", "t">>, <<"f">>}

\* what a read outside a vector may yield
Garbage == {0, 99}

\* the first pass compares tag before any line stored into it
ReadsUninitTag(file) == file # <<>> /\ Head(file).tok = <<>>

Tag0Choices(file) == IF ReadsUninitTag(file) THEN UninitTags ELSE {<<>>}

\* the half extents createBox is called with
BoxSizes == { <<F(1), F(1), F(1)>>, <<F(1), F(2), F(3)>>, <<0, F(1), F(2)>> }

Radii == {F(1), F(2)}

\* ------------------------------------------------------ Texture: TGA decoder
\* A GLuint is kept as its two 16-bit halves <<hi, lo>>, value 65536*hi + lo,
\* so that products wrap at 2^32 as unsigned int products do
U32(n) == <<(n \div 65536) % 65536, n % 65536>>

\* u * b in GLuint arithmetic for a byte b
MulByte(u, b) ==
    LET lo == u[2] * b
        hi == u[1] * b + lo \div 65536
    IN  <<hi % 65536, lo % 65536>>

\* u * 256 in GLuint arithmetic
Shl8(u) == <<(u[1] * 256 + u[2] \div 256) % 65536, (u[2] * 256) % 65536>>

\* u + v in GLuint arithmetic
Add32(u, v) ==
    LET lo == u[2] + v[2]
    IN  <<(u[1] + v[1] + lo \div 65536) % 65536, lo % 65536>>

\* u * n in GLuint arithmetic for n below 65536
Mul32(u, n) == Add32(Shl8(MulByte(u, n \div 256)), MulByte(u, n % 256))

\* u <= n for a GLuint u and a file length n
AtMost(u, n) == u[1] < 32768 /\ 65536 * u[1] + u[2] <= n

\* the value of a GLuint that is at most a file length
ToInt(u) == 65536 * u[1] + u[2]

GL_RGB == 6407

GL_RGBA == 6408

\* struct ImageData with its default member initializers: return {}
EmptyImage == [data |-> <<>>, width |-> 0, height |-> 0, type |-> 0]

\* const std::array<char, 12> uncompressedTGA, compressedTGA
uncompressedTGA == <<0, 0, 2, 0, 0, 0, 0, 0, 0, 0, 0, 0>>

compressedTGA == <<0, 0, 10, 0, 0, 0, 0, 0, 0, 0, 0, 0>>

\* a bytesPerPixel that leaves the last group of the buffer without its third
\* byte makes std::swap reach outside the buffer
SwapReachesOutside(size, bytesPerPixel) ==
    \E cswap \in 0..(size - 1) : cswap % bytesPerPixel = 0 /\ cswap + 2 >= size

\* for (cswap = 0; cswap < imageSize; cswap += bytesPerPixel)
\*     std::swap(image.data[cswap], image.data[cswap + 2]);
\* garbage is what image.data[cswap + 2] yields outside the buffer
SwapRedBlue(data, bytesPerPixel, garbage) ==
    LET swapped == [p \in 1..Len(data) |->
                       LET c == (p - 1) % bytesPerPixel
                           cswap == (p - 1) - c
                       IN  IF c = 0 THEN ReadAt(data, cswap + 2, garbage)
                           ELSE IF c = 2 THEN data[cswap + 1]
                           ELSE data[p]]
    IN  SubSeq(swapped, 1, Len(data))

\* mutant: a failure hands back the header fields read so far
ReturnHeaderFields == [oob |-> FALSE,
                       image |-> [EmptyImage EXCEPT !.width = 1, !.height = 1],
                       returned |-> "empty"]

\* what loadUncompressedTGA returns with `return {}`
ReturnEmpty == [oob |-> FALSE, image |-> EmptyImage, returned |-> "empty"]

\* mutant: only the file type byte of the signature is compared
UnsupportedTypeByteOnly(tgaheader) == tgaheader[3] # uncompressedTGA[3]

\* tgaheader != uncompressedTGA
Unsupported(tgaheader) == tgaheader # uncompressedTGA

\* mutant: only the width is tested
InvalidWidthOnly(width, height) == width <= 0

\* (image.width <= 0) || (image.height <= 0)
InvalidDimensions(width, height) == width <= 0 \/ height <= 0

\* the default label of switch (bpp)
UnsupportedDepth(bpp) == bpp \notin {24, 32}

\* Texture::loadUncompressedTGA(filename): file.opens tells whether the stream
\* opens, file.bytes is the content. returned tells which return statement
\* was taken, oob whether the swap loop reached outside the buffer
LoadUncompressedTGA(file, garbage) ==
    LET bytes == file.bytes
        tgaheader == SubSeq(bytes, 1, 12)
        header == SubSeq(bytes, 13, 18)
        width == header[2] * 256 + header[1]
        height == header[4] * 256 + header[3]
        bpp == header[5]
        bytesPerPixel == bpp \div 8
        imageSize == Mul32(Mul32(U32(bytesPerPixel), width), height)
        avail == Len(bytes) - 18
        type == IF bpp = 24 THEN GL_RGB ELSE GL_RGBA
    IN  IF ~file.opens THEN ReturnEmpty
        ELSE IF Len(bytes) < 12 THEN ReturnEmpty
        ELSE IF tgaheader = compressedTGA THEN ReturnEmpty
        ELSE IF Unsupported(tgaheader) THEN ReturnEmpty
        ELSE IF Len(bytes) < 18 THEN ReturnEmpty
        ELSE IF InvalidDimensions(width, height) THEN ReturnEmpty
        ELSE IF UnsupportedDepth(bpp) THEN ReturnEmpty
        ELSE IF ~AtMost(imageSize, avail) THEN ReturnEmpty
        ELSE [oob |-> SwapReachesOutside(ToInt(imageSize), bytesPerPixel),
              image |-> [data |-> SwapRedBlue(SubSeq(bytes, 19, 18 + ToInt(imageSize)),
                                              bytesPerPixel, garbage),
                         width |-> width, height |-> height, type |-> type],
              returned |-> "image"]

\* the Texture object as a record
Texture == [textureID_ |-> textureID_, image_ |-> image_, glTextures |-> glTextures]

\* Texture::Texture(filename) with the default filename "", which names no file
NewTexture == [textureID_ |-> 0, image_ |-> EmptyImage, glTextures |-> {}]

\* Texture::createTexture(filename) once loadUncompressedTGA returned r
CreateTexture(t, r) ==
    LET t1 == [t EXCEPT !.image_ = r.image]
        id == IF t1.textureID_ = 0 THEN GenName(t1.glTextures) ELSE t1.textureID_
    IN  IF t1.image_.data = <<>> THEN t1
        ELSE [t1 EXCEPT !.textureID_ = id,
                        !.glTextures = @ \cup {id},
                        !.image_.data = <<>>]

\* ------------------------------------------------------------- TGA inputs
\* the 6 bytes after the signature: width and height low byte first, the
\* bits per pixel and the image descriptor byte
Descriptor(w, h, bpp) == <<w % 256, w \div 256, h % 256, h \div 256, bpp, 0>>

\* n pixel bytes, all different
PixelBytes(n) == [p \in 1..n |-> 10 + p]

NoTgaFile == [bytes |-> <<>>, opens |-> FALSE]

TgaFile(bytes) == [bytes |-> bytes, opens |-> TRUE]

\* width and height: zero, small, a high byte, and sizes whose byte count
\* passes 2^32 (4*32768*32768 = 2^32, 4*32513*33025 = 2^32 + 4,
\* 3*45761*62571 = 2*2^32 + 1)
TgaDims == { <<0, 0>>, <<0, 1>>, <<1, 0>>, <<1, 1>>, <<2, 1>>, <<1, 2>>, <<256, 1>>,
             <<32768, 32768>>, <<32513, 33025>>, <<45761, 62571>> }

TgaDepths == {0, 8, 24, 25, 32}

\* signatures that are neither constant: one byte of uncompressedTGA changed
OtherSignatures == { [uncompressedTGA EXCEPT ![1] = 1],
                     [uncompressedTGA EXCEPT ![3] = 3],
                     [uncompressedTGA EXCEPT ![12] = 1],
                     [compressedTGA EXCEPT ![12] = 1] }

\* a 1 x 1 image of 24 bits with its pixel
ValidBody == Descriptor(1, 1, 24) \o PixelBytes(3)

TgaFiles ==
    {NoTgaFile}
    \cup {TgaFile(SubSeq(uncompressedTGA \o ValidBody, 1, n)) : n \in {0, 11, 12, 17}}
    \cup {TgaFile(sig \o body) : sig \in OtherSignatures \cup {compressedTGA},
                                 body \in {<<>>, ValidBody}}
    \cup {TgaFile(uncompressedTGA \o Descriptor(d[1], d[2], bpp) \o PixelBytes(n)) :
              d \in TgaDims, bpp \in TgaDepths, n \in 0..MaxPixelBytes}

\* ------------------------------------------------------------------ Shader
\* the Shader object, with the programs of the GL context, as a record
Shader == [programID_ |-> programID_, glPrograms |-> glPrograms,
           ownPrograms |-> ownPrograms]

\* the kinds of shader source file: one that does not open, one that does
\* not compile, one that compiles
ShaderFiles == {"missing", "invalid", "valid"}

\* loadShader(shaderType, filename): whether GL_COMPILE_STATUS is GL_TRUE
Compiles(filename) == filename = "valid"

\* glDeleteProgram(program) on the set live: a name that is no program
\* raises GL_INVALID_VALUE and deletes nothing
DeleteProgram(live, program) == live \ {program}

\* Shader::createShader(vertexshaderfile, fragmentshaderfile); the two shader
\* objects it creates are deleted before it returns
CreateShader(sh, vertexshaderfile, fragmentshaderfile) ==
    LET live == IF sh.programID_ # 0 THEN DeleteProgram(sh.glPrograms, sh.programID_)
                ELSE sh.glPrograms
        own == IF sh.programID_ # 0 THEN DeleteProgram(sh.ownPrograms, sh.programID_)
               ELSE sh.ownPrograms
        programObject == GenName(live)
    IN  [programID_ |-> programObject, glPrograms |-> live \cup {programObject},
         ownPrograms |-> own \cup {programObject}]

\* GL_LINK_STATUS of the program made from the two files
Links(vertexshaderfile, fragmentshaderfile) ==
    Compiles(vertexshaderfile) /\ Compiles(fragmentshaderfile)

\* the programs other objects hold in the GL context when the Shader is built
ForeignPrograms == {{}, {1}, {1, 2}}

\* what the member programID_ may hold when no initializer wrote it: zero,
\* the name of another object's program, a name that is no program
UninitIDs == {0, 1, 2}

\* ----------------------------------------------------------- MouseRotator
\* M_PI in angle units
PiUnits == 4

\* glfwGetWindowSize: the widths and heights of the window
WindowSizes == {2, 4}

\* fmod(x, y) for y > 0: the result has the sign of x
Fmod(x, y) == IF x >= 0 THEN x % y ELSE -((-x) % y)

\* the MouseRotator as a record
Rotator == [phi_ |-> phi_, theta_ |-> theta_, lastX_ |-> lastX_, lastY_ |-> lastY_,
            leftPressed_ |-> leftPressed_, rightPressed_ |-> rightPressed_]

\* MouseRotator::MouseRotator(window) with the cursor at (x, y)
NewRotator(x, y) ==
    [phi_ |-> 0, theta_ |-> 0, lastX_ |-> x, lastY_ |-> y,
     leftPressed_ |-> FALSE, rightPressed_ |-> FALSE]

\* MouseRotator::poll() with the cursor at (currentX, currentY), the buttons
\* currentLeft and currentRight and a window of windowWidth x windowHeight
Poll(r, currentX, currentY, currentLeft, currentRight, windowWidth, windowHeight) ==
    LET moveX == currentX - r.lastX_
        moveY == currentY - r.lastY_
        phi1 == r.phi_ + (PiUnits * moveX) \div windowWidth
        phi2 == IF phi1 >= PiUnits * 2 THEN Fmod(phi1, PiUnits * 2) ELSE phi1
        phi3 == IF phi2 < 0 THEN phi2 + PiUnits * 2 ELSE phi2
        theta1 == r.theta_ + (PiUnits * moveY) \div windowHeight
        theta2 == IF 2 * theta1 >= PiUnits THEN PiUnits \div 2 ELSE theta1
        theta3 == IF 2 * theta2 < -PiUnits THEN -(PiUnits \div 2) ELSE theta2
        dragged == IF currentLeft /\ r.leftPressed_
                      THEN [r EXCEPT !.phi_ = phi3, !.theta_ = theta3]
                      ELSE r
    IN  [dragged EXCEPT !.leftPressed_ = currentLeft, !.rightPressed_ = currentRight,
                        !.lastX_ = currentX, !.lastY_ = currentY]

\* ----------------------------------------------------------------- actions
NoCall == [file |-> <<>>, garbage |-> 0, readerror |-> 0, oob |-> FALSE,
           tag0 |-> <<>>, exists |-> FALSE, op |-> "new", dims |-> <<>>]

NoLoad == [file |-> NoTgaFile, garbage |-> 0, oob |-> FALSE,
           image |-> EmptyImage, returned |-> "empty"]

\* the Texture is t
TextureIs(t) ==
    /\ textureID_ = t.textureID_
    /\ image_ = t.image_
    /\ glTextures = t.glTextures

SetTexture(t) ==
    /\ textureID_' = t.textureID_
    /\ image_' = t.image_
    /\ glTextures' = t.glTextures

\* no createShader call yet
NoBuild == [vertexshaderfile |-> "", fragmentshaderfile |-> "",
            calls |-> 0, deleteArg |-> 0, prevStored |-> 0, linked |-> FALSE]

\* the Shader and the programs of the context are sh
ShaderIs(sh) ==
    /\ programID_ = sh.programID_
    /\ glPrograms = sh.glPrograms
    /\ ownPrograms = sh.ownPrograms

SetShader(sh) ==
    /\ programID_' = sh.programID_
    /\ glPrograms' = sh.glPrograms
    /\ ownPrograms' = sh.ownPrograms

\* Shader::Shader() in a context that holds the programs foreign
NewShader(foreign) == [programID_ |-> 0, glPrograms |-> foreign, ownPrograms |-> {}]

\* the MouseRotator is r
RotatorIs(r) ==
    /\ phi_ = r.phi_ /\ theta_ = r.theta_
    /\ lastX_ = r.lastX_ /\ lastY_ = r.lastY_
    /\ leftPressed_ = r.leftPressed_ /\ rightPressed_ = r.rightPressed_

SetRotator(r) ==
    /\ phi_' = r.phi_ /\ theta_' = r.theta_
    /\ lastX_' = r.lastX_ /\ lastY_' = r.lastY_
    /\ leftPressed_' = r.leftPressed_ /\ rightPressed_' = r.rightPressed_

\* a Shader built by Shader() in an empty context and a MouseRotator built
\* with the cursor at the origin
OthersNew ==
    /\ ShaderIs(NewShader({})) /\ build = NoBuild
    /\ RotatorIs(NewRotator(0, 0))

\* a TriangleSoup and a Texture, both newly constructed
Init ==
    /\ SoupIs(EmptySoup) /\ call = NoCall
    /\ TextureIs(NewTexture) /\ load = NoLoad
    /\ OthersNew

\* the bound on the objects alive in the GL context
Fits(s) == Cardinality(s.glVertexArrays) <= MaxVaos

clean ==
    /\ SetSoup(Clean(Soup))
    /\ call' = [NoCall EXCEPT !.op = "clean"]
    /\ UNCHANGED <<textureVars, shaderVars, rotatorVars>>

createTriangle ==
    LET s == CreateTriangle(Soup)
    IN  /\ Fits(s)
        /\ SetSoup(s)
        /\ call' = [NoCall EXCEPT !.op = "createTriangle"]
        /\ UNCHANGED <<textureVars, shaderVars, rotatorVars>>

createBox ==
    \E size \in BoxSizes :
        LET s == CreateBox(Soup, size[1], size[2], size[3])
        IN  /\ Fits(s)
            /\ SetSoup(s)
            /\ call' = [NoCall EXCEPT !.op = "createBox", !.dims = size]
            /\ UNCHANGED <<textureVars, shaderVars, rotatorVars>>

createSphere ==
    \E radius \in Radii, segments \in 0..MaxSegments :
        LET s == CreateSphere(Soup, radius, segments)
        IN  /\ Fits(s)
            /\ SetSoup(s)
            /\ call' = [NoCall EXCEPT !.op = "createSphere",
                                      !.dims = <<radius, segments>>]
            /\ UNCHANGED <<textureVars, shaderVars, rotatorVars>>

\* readOBJ(filename) where the file is missing (exists = FALSE) or holds file;
\* the garbage is chosen only when a read outside a vector happens
readOBJ(exists, file) ==
    \E tag0 \in Tag0Choices(file) :
        LET r0 == ReadOBJ(Soup, exists, file, tag0, 0)
        IN  \E garbage \in (IF r0.oob THEN Garbage ELSE {0}) :
                LET r == IF garbage = 0 THEN r0
                         ELSE ReadOBJ(Soup, exists, file, tag0, garbage)
                IN  /\ Fits(r.soup)
                    /\ SetSoup(r.soup)
                    /\ call' = [NoCall EXCEPT !.op = "readOBJ", !.exists = exists,
                                              !.file = file, !.tag0 = tag0,
                                              !.garbage = garbage,
                                              !.readerror = r.readerror,
                                              !.oob = r.oob]
                    /\ UNCHANGED <<textureVars, shaderVars, rotatorVars>>

Next ==
    \/ clean
    \/ createTriangle
    \/ createBox
    \/ createSphere
    \/ \E exists \in BOOLEAN :
           \E file \in (IF exists THEN LifeFiles ELSE {<<>>}) : readOBJ(exists, file)

Spec == Init /\ [][Next]_vars

\* readOBJ on each file of Files, called on a new mesh and on a box
PriorSoups == {EmptySoup, CreateBox(EmptySoup, F(1), F(1), F(1))}

InitOBJ ==
    /\ \E s \in PriorSoups : SoupIs(s)
    /\ \E file \in Files : call = [NoCall EXCEPT !.op = "pending", !.file = file]
    /\ TextureIs(NewTexture) /\ load = NoLoad
    /\ OthersNew

importOBJ ==
    /\ call.op = "pending"
    /\ readOBJ(TRUE, call.file)

NextOBJ == importOBJ

SpecOBJ == InitOBJ /\ [][NextOBJ]_vars

\* Texture::createTexture(filename) on each file of TgaFiles
createTexture ==
    \E file \in TgaFiles :
        \E r0 \in {LoadUncompressedTGA(file, 0)} :
            \E garbage \in (IF r0.oob THEN Garbage ELSE {0}) :
                \E r \in {IF garbage = 0 THEN r0 ELSE LoadUncompressedTGA(file, garbage)} :
                    /\ SetTexture(CreateTexture(Texture, r))
                    /\ load' = [file |-> file, garbage |-> garbage, oob |-> r.oob,
                                image |-> r.image, returned |-> r.returned]
                    /\ UNCHANGED <<soupVars, shaderVars, rotatorVars>>

NextTGA == createTexture

SpecTGA == Init /\ [][NextTGA]_vars

\* the record of a createShader call on the Shader sh
Built(sh, vertexshaderfile, fragmentshaderfile) ==
    [vertexshaderfile |-> vertexshaderfile,
     fragmentshaderfile |-> fragmentshaderfile,
     calls |-> build.calls + 1,
     deleteArg |-> sh.programID_,
     prevStored |-> IF build.calls > 0 THEN sh.programID_ ELSE 0,
     linked |-> Links(vertexshaderfile, fragmentshaderfile)]

\* a Shader built by Shader() or by Shader(vertexshaderfile,
\* fragmentshaderfile); the second has no initializer for programID_ and
\* calls createShader, which reads the member
InitShader ==
    /\ SoupIs(EmptySoup) /\ call = NoCall
    /\ TextureIs(NewTexture) /\ load = NoLoad
    /\ RotatorIs(NewRotator(0, 0))
    /\ \E foreign \in ForeignPrograms :
           \/ ShaderIs(NewShader(foreign)) /\ build = NoBuild
           \/ \E uninit \in UninitIDs, v \in ShaderFiles, f \in ShaderFiles :
                  LET sh == [NewShader(foreign) EXCEPT !.programID_ = uninit]
                  IN  /\ ShaderIs(CreateShader(sh, v, f))
                      /\ build = [NoBuild EXCEPT !.calls = 1, !.deleteArg = uninit,
                                                 !.vertexshaderfile = v,
                                                 !.fragmentshaderfile = f,
                                                 !.linked = Links(v, f)]

\* Shader::createShader(vertexshaderfile, fragmentshaderfile)
createShader ==
    \E v \in ShaderFiles, f \in ShaderFiles :
        /\ build.calls < MaxBuilds
        /\ SetShader(CreateShader(Shader, v, f))
        /\ build' = Built(Shader, v, f)
        /\ UNCHANGED <<soupVars, textureVars, rotatorVars>>

NextShader == createShader

SpecShader == InitShader /\ [][NextShader]_vars

\* a MouseRotator built with the cursor anywhere
InitRotator ==
    /\ SoupIs(EmptySoup) /\ call = NoCall
    /\ TextureIs(NewTexture) /\ load = NoLoad
    /\ ShaderIs(NewShader({})) /\ build = NoBuild
    /\ \E x \in 0..MaxCursorX, y \in 0..MaxCursorY : RotatorIs(NewRotator(x, y))

\* MouseRotator::poll()
poll ==
    \E currentX \in 0..MaxCursorX, currentY \in 0..MaxCursorY,
       currentLeft \in BOOLEAN, currentRight \in BOOLEAN,
       windowWidth \in WindowSizes, windowHeight \in WindowSizes :
        /\ phi_ >= -MaxDrift
        /\ SetRotator(Poll(Rotator, currentX, currentY, currentLeft, currentRight,
                           windowWidth, windowHeight))
        /\ UNCHANGED <<soupVars, textureVars, shaderVars>>

NextRotator == poll

SpecRotator == InitRotator /\ [][NextRotator]_vars

\* ------------------------------------------------------------------ claims
MeshEmpty ==
    nverts_ = 0 /\ ntris_ = 0 /\ vertexarray_ = <<>> /\ indexarray_ = <<>>

HandlesZero == vao_ = 0 /\ vertexbuffer_ = 0 /\ indexbuffer_ = 0

\* readOBJ opened the file and every read it made is defined: no read of the
\* uninitialized tag, no read outside verts, normals or texcoords
Imported == call.op = "readOBJ" /\ call.exists

Defined == ~call.oob /\ ~ReadsUninitTag(call.file)

ImportedOk == Imported /\ call.readerror = 0

\* the positions in file of the lines whose first token is tok, in order
RECURSIVE LinesWith(_, _, _)
LinesWith(file, tok, i) ==
    IF i > Len(file) THEN <<>>
    ELSE (IF file[i].tok = tok THEN <<i>> ELSE <<>>) \o LinesWith(file, tok, i + 1)

\* C1: after createSphere(radius, segments), with vsegs = max(segments, 2) and
\* hsegs = 2 * vsegs, vertexCount is 1 + (vsegs-1)*(hsegs+1) + 1, triangleCount
\* is hsegs + (vsegs-2)*hsegs*2 + hsegs, and every index is below vertexCount.
C1_SphereCounts ==
    call.op = "createSphere" =>
        LET segments == call.dims[2]
            vs == IF segments < 2 THEN 2 ELSE segments
            hs == 2 * vs
        IN  /\ nverts_ = 1 + (vs - 1) * (hs + 1) + 1
            /\ ntris_ = hs + (vs - 2) * hs * 2 + hs
            /\ \A p \in 1..Len(indexarray_) :
                   indexarray_[p] >= 0 /\ indexarray_[p] < nverts_

\* a sphere asked for with fewer than 2 segments: 7 vertices, 8 triangles
C1_Witness ==
    call.op = "createSphere" /\ call.dims[2] < 2 /\ nverts_ = 7 /\ Len(indexarray_) = 24

\* a face line with four v/t/n groups: f 2/1/2 1/2/1 1/1/1 2/2/2
IsQuad(line) ==
    /\ line.tok = <<"f">>
    /\ Len(line.corners) = 4
    /\ \A k \in 1..4 : Len(line.corners[k]) = 3

\* C2: a file with a quad face line makes readOBJ abort and leave the mesh
\* empty; the quad is never taken as the triangle of its first three corners.
C2_QuadRejected ==
    (Imported /\ Defined /\ \E i \in 1..Len(call.file) : IsQuad(call.file[i])) => MeshEmpty

\* C3: after a successful readOBJ of a file with F face lines triangleCount is
\* F and vertexCount is 3*F, whatever other lines (blank ones included) are
\* interleaved.
C3_FaceCount ==
    (ImportedOk /\ Defined) =>
        LET nfaces == Len(LinesWith(call.file, <<"f">>, 1))
        IN  ntris_ = nfaces /\ nverts_ = 3 * nfaces

\* C4: after readOBJ of a file that cannot be opened the mesh is empty,
\* whatever it held before.
C4_MissingFileEmpty ==
    (call.op = "readOBJ" /\ ~call.exists) => MeshEmpty

\* a v, vn, vt or f line with the wrong number of arguments
WrongArgCount(line) ==
    \/ line.tok \in {<<"v">>, <<"v", "n">>} /\ Len(line.args) # 3
    \/ line.tok = <<"v", "t">> /\ Len(line.args) # 2
    \/ line.tok = <<"f">> /\ \/ Len(line.corners) # 3
                             \/ \E k \in 1..Len(line.corners) : Len(line.corners[k]) # 3

\* C5: a v, vn, vt or f line with the wrong number of arguments makes readOBJ
\* abort: the mesh is empty and the three handles are 0.
C5_MalformedAborts ==
    (Imported /\ Defined /\ \E i \in 1..Len(call.file) : WrongArgCount(call.file[i]))
        => MeshEmpty /\ HandlesZero

\* C6: the vertex array holds 8*vertexCount floats and the index array
\* 3*triangleCount entries after any sequence of calls.
C6_ArraySizes ==
    Len(vertexarray_) = 8 * nverts_ /\ Len(indexarray_) = 3 * ntris_

\* a successful import of two faces into a mesh that held something else
C6_Witness ==
    ImportedOk /\ ntris_ = 2 /\ Cardinality(glVertexArrays) = 2

\* C7: every entry of the index array is below vertexCount after any sequence
\* of calls.
C7_IndexBelowVertexCount ==
    \A p \in 1..Len(indexarray_) : indexarray_[p] < nverts_

\* the object the last call leaves when it is made on a new TriangleSoup
OnNewSoup ==
    CASE call.op = "createTriangle" -> CreateTriangle(EmptySoup)
      [] call.op = "createBox" ->
            CreateBox(EmptySoup, call.dims[1], call.dims[2], call.dims[3])
      [] call.op = "createSphere" ->
            CreateSphere(EmptySoup, call.dims[1], call.dims[2])
      [] call.op = "readOBJ" ->
            ReadOBJ(EmptySoup, call.exists, call.file, call.tag0, call.garbage).soup
      [] OTHER -> EmptySoup

\* C8: after createTriangle, createBox, createSphere or a successful readOBJ
\* the vertex data, index data and counts are those the same call leaves on a
\* new mesh: nothing of the previous mesh survives.
C8_FullyReplaced ==
    (call.op \in {"createTriangle", "createBox", "createSphere"}
       \/ (ImportedOk /\ Defined)) =>
        /\ vertexarray_ = OnNewSoup.vertexarray_
        /\ indexarray_ = OnNewSoup.indexarray_
        /\ nverts_ = OnNewSoup.nverts_
        /\ ntris_ = OnNewSoup.ntris_

\* the first three v/t/n groups of the f-th face line (f counted from 0)
FaceCorner(file, f, k) == file[LinesWith(file, <<"f">>, 1)[f + 1]].corners[k]

\* the position in file of the face line f
FaceAt(file, f) == LinesWith(file, <<"f">>, 1)[f + 1]

\* the i-th line (i counted from 1) with token tok, 0 when there is none
NthLine(file, tok, i) ==
    IF i >= 1 /\ i <= Len(LinesWith(file, tok, 1))
       THEN LinesWith(file, tok, 1)[i] ELSE 0

\* component c of attribute a of output vertex 3f + k - 1 is component c of
\* the line the corner names, a = 1: v (offset 0), a = 2: vt (offset 6),
\* a = 3: vn (offset 3); only lines that precede the face when preceding
CornerCopied(file, f, k, a, preceding) ==
    LET tok == <<<<"v">>, <<"v", "t">>, <<"v", "n">>>>[a]
        offset == <<0, 6, 3>>[a]
        size == <<3, 2, 3>>[a]
        line == NthLine(file, tok, FaceCorner(file, f, k)[a])
    IN  (line # 0 /\ (preceding => line < FaceAt(file, f))) =>
            \A c \in 1..size :
                At(vertexarray_, 8 * (3 * f + k - 1) + offset + c - 1) = file[line].args[c]

FacesCopied(preceding) ==
    (ImportedOk /\ (preceding \/ Defined)) =>
        \A f \in 0..(Len(LinesWith(call.file, <<"f">>, 1)) - 1) :
            /\ \A k \in 1..3, a \in 1..3 : CornerCopied(call.file, f, k, a, preceding)
            /\ At(indexarray_, 3 * f) = 3 * f
            /\ At(indexarray_, 3 * f + 1) = 3 * f + 1
            /\ At(indexarray_, 3 * f + 2) = 3 * f + 2

\* C9 as claimed: after a successful import the f-th face line v_k/t_k/n_k
\* gives output vertices 3f, 3f+1, 3f+2 the position of the v_k-th v line, the
\* normal of the n_k-th vn line and the texture coordinate of the t_k-th vt
\* line of the file, and triangle f is (3f, 3f+1, 3f+2).
C9_FacesCopiedAnywhere == FacesCopied(FALSE)

\* C9 amended: the same for every index that names a v, vn or vt line which
\* precedes the face line in the file.
C9_FacesCopied == FacesCopied(TRUE)

\* a face that names the third v line, the line preceding it
C9_Witness ==
    /\ ImportedOk /\ ~call.oob /\ ntris_ = 1
    /\ At(vertexarray_, 0) = 71 /\ At(vertexarray_, 3) = 31 /\ At(vertexarray_, 6) = 51

\* C10: clean leaves vertexCount = 0, triangleCount = 0, empty arrays, the
\* three handles 0 and the objects they named deleted, from any state; a
\* second clean right after changes nothing.
C10_CleanResets ==
    [][call'.op = "clean" =>
         /\ nverts_' = 0 /\ ntris_' = 0
         /\ vertexarray_' = <<>> /\ indexarray_' = <<>>
         /\ vao_' = 0 /\ vertexbuffer_' = 0 /\ indexbuffer_' = 0
         /\ vao_ \notin glVertexArrays'
         /\ vertexbuffer_ \notin glBuffers'
         /\ indexbuffer_ \notin glBuffers'
         /\ (call.op = "clean" => Soup' = Soup)]_vars

\* clean has been called on a mesh that was built twice
C10_Witness ==
    call.op = "clean" /\ MeshEmpty /\ HandlesZero /\ glVertexArrays # {}

\* ------------------------------------------------------- claims on the box
\* the position of vertex v
Position(v) ==
    <<At(vertexarray_, 8 * v), At(vertexarray_, 8 * v + 1), At(vertexarray_, 8 * v + 2)>>

\* the triangles whose three corners have coordinate axis equal to value
TrianglesOnPlane(axis, value) ==
    {t \in 0..(ntris_ - 1) :
        \A k \in 0..2 : Position(At(indexarray_, 3 * t + k))[axis] = value}

\* after createBox(x, y, z): 8 vertices at (+-x, +-y, +-z), the 12 triangles of
\* the index table, every index below 8, and for each of the 6 faces exactly
\* 2 triangles with all three corners on the face
BoxOfTwelve ==
    /\ nverts_ = 8 /\ ntris_ = 12
    /\ Len(vertexarray_) = 64
    /\ {Position(v) : v \in 0..7} =
           {<<sx * call.dims[1], sy * call.dims[2], sz * call.dims[3]>> :
               sx \in {-1, 1}, sy \in {-1, 1}, sz \in {-1, 1}}
    /\ indexarray_ = <<0, 3, 1, 0, 2, 3, 1, 4, 0, 1, 5, 4, 4, 2, 0, 4, 6, 2,
                       1, 3, 7, 1, 7, 5, 7, 2, 6, 7, 3, 2, 4, 5, 7, 4, 7, 6>>
    /\ \A p \in 1..36 : indexarray_[p] >= 0 /\ indexarray_[p] < 8
    /\ \A axis \in 1..3 : \A sign \in {-1, 1} :
           Cardinality(TrianglesOnPlane(axis, sign * call.dims[axis])) = 2

\* C18 as claimed: createBox leaves such a box for any half-extents.
C18_BoxAnyExtents == call.op = "createBox" => BoxOfTwelve

\* C18 amended: createBox leaves such a box for half-extents that are not 0.
C18_BoxFaces ==
    (call.op = "createBox" /\ \A axis \in 1..3 : call.dims[axis] # 0) => BoxOfTwelve

\* createBox(1, 2, 3) called on a mesh that held something else
C18_Witness ==
    /\ call.op = "createBox" /\ call.dims = <<F(1), F(2), F(3)>>
    /\ Position(7) = <<F(1), F(2), F(3)>>
    /\ Cardinality(glVertexArrays) = 2

\* ---------------------------------------------- claims on the ignored lines
\* a line whose first token is none of v, vn, vt, f
OtherLine(line) ==
    line.tok # <<>> /\ line.tok \notin {<<"v">>, <<"v", "n">>, <<"v", "t">>, <<"f">>}

\* file without its line i
RemoveLine(file, i) == SubSeq(file, 1, i - 1) \o SubSeq(file, i + 1, Len(file))

\* readOBJ of file and of file without its line i, both made on the object s,
\* leave the same mesh and both succeed or both fail; files on which a read
\* is undefined are left aside
SameWithoutLine(s, file, i) ==
    LET with == ReadOBJ(s, TRUE, file, <<>>, 0)
        without == ReadOBJ(s, TRUE, RemoveLine(file, i), <<>>, 0)
    IN  (/\ ~ReadsUninitTag(file) /\ ~ReadsUninitTag(RemoveLine(file, i))
         /\ ~with.oob /\ ~without.oob) =>
            /\ with.readerror = without.readerror
            /\ with.soup.nverts_ = without.soup.nverts_
            /\ with.soup.ntris_ = without.soup.ntris_
            /\ with.soup.vertexarray_ = without.soup.vertexarray_
            /\ with.soup.indexarray_ = without.soup.indexarray_

\* C19: a line whose first token is none of v, vn, vt, f is ignored: the
\* import of a file gives the same mesh, and succeeds or fails alike, with and
\* without any such line.
C19_OtherLinesIgnored ==
    [][call'.op = "readOBJ" =>
         \A i \in 1..Len(call'.file) :
             OtherLine(call'.file[i]) => SameWithoutLine(Soup, call'.file, i)]_vars

\* ------------------------------------------- claims on the sphere's indices
\* the three indices of triangle t
Triangle(t) ==
    <<At(indexarray_, 3 * t), At(indexarray_, 3 * t + 1), At(indexarray_, 3 * t + 2)>>

\* the stores of the three index loops of createSphere, in program order
SphereIndexWrites(vsegs, hsegs, nverts) ==
    TopCapWrites(hsegs) \o MiddleWrites(vsegs, hsegs)
        \o BottomCapWrites(vsegs, hsegs, nverts)

\* the stores ws write each of the slots 0..n-1 once and no other slot
EachSlotOnce(ws, n) ==
    /\ Len(ws) = n
    /\ {ws[k][1] : k \in 1..Len(ws)} = 0..(n - 1)

\* C20: createSphere stores every slot of the index array once: triangles
\* 0..hsegs-1 are the top fan (0, 1+i, 2+i), the quad of ring j and column i
\* with i0 = 1 + j*(hsegs+1) + i gives (i0, i0+hsegs+1, i0+1) and
\* (i0+1, i0+hsegs+1, i0+hsegs+2), the last hsegs triangles are the bottom
\* fan (N-1, N-2-i, N-3-i), and the three regions do not overlap.
C20_SphereLayout ==
    call.op = "createSphere" =>
        LET vs == IF call.dims[2] < 2 THEN 2 ELSE call.dims[2]
            hs == 2 * vs
            N == nverts_
        IN  /\ Len(indexarray_) = 3 * (hs + 2 * (vs - 2) * hs + hs)
            /\ EachSlotOnce(SphereIndexWrites(vs, hs, N), Len(indexarray_))
            /\ \A i \in 0..(hs - 1) : Triangle(i) = <<0, 1 + i, 2 + i>>
            /\ \A j \in 0..(vs - 3) : \A i \in 0..(hs - 1) :
                   LET i0 == 1 + j * (hs + 1) + i
                       t == hs + 2 * (j * hs + i)
                   IN  /\ Triangle(t) = <<i0, i0 + hs + 1, i0 + 1>>
                       /\ Triangle(t + 1) = <<i0 + 1, i0 + hs + 1, i0 + hs + 2>>
            /\ \A i \in 0..(hs - 1) :
                   Triangle(hs + 2 * (vs - 2) * hs + i) = <<N - 1, N - 2 - i, N - 3 - i>>

\* a sphere of 3 segments: 6 + 12 + 6 triangles, the first quad starts at
\* triangle 6 with vertex 1
C20_Witness ==
    /\ call.op = "createSphere" /\ call.dims[2] = 3
    /\ ntris_ = 24
    /\ Triangle(6) = <<1, 8, 2>> /\ Triangle(23) = <<15, 9, 8>>

\* the vertices that triangle t refers to
Corners(t) == Range(Triangle(t))

\* C21: every triangle of a sphere has three different indices, and every
\* vertex of the sphere, the two poles and the hsegs+1 vertices of each of
\* the vsegs-1 rings, the duplicated seam vertex included, is a corner of at
\* least one triangle.
C21_SphereTriangles ==
    call.op = "createSphere" =>
        LET vs == IF call.dims[2] < 2 THEN 2 ELSE call.dims[2]
            hs == 2 * vs
        IN  /\ nverts_ = 2 + (vs - 1) * (hs + 1)
            /\ \A t \in 0..(ntris_ - 1) : Cardinality(Corners(t)) = 3
            /\ \A v \in 0..(nverts_ - 1) : \E t \in 0..(ntris_ - 1) : v \in Corners(t)
            /\ \A j \in 0..(vs - 2) :
                   \E t \in 0..(ntris_ - 1) : (1 + j * (hs + 1) + hs) \in Corners(t)

\* a sphere of 3 segments: the seam vertex 7 of the first ring closes the
\* top fan, the seam vertex 14 of the second ring the bottom fan
C21_Witness ==
    /\ call.op = "createSphere" /\ call.dims[2] = 3
    /\ nverts_ = 16
    /\ Triangle(5) = <<0, 6, 7>>
    /\ 14 \in Corners(18)

\* ------------------------------------------ claims on the face indices
\* C23: for any file, every accepted face line reads positions, normals and
\* texture coordinates only inside the temporary arrays sized by the first
\* pass: each index, once made 0-based, is at least 0 and below the number
\* of v, vn and vt lines counted.
C23_FaceReadsInside ==
    (Imported /\ ~ReadsUninitTag(call.file)) => ~call.oob

\* -------------------------------------------- claims on the GL objects
\* C22: after any sequence of createTriangle, createBox, createSphere,
\* readOBJ and clean calls, the vertex arrays and buffers the mesh generated
\* and has not deleted are exactly the ones named by vao_, vertexbuffer_ and
\* indexbuffer_, so at most one vertex array and two buffers are alive.
C22_OwnedObjectsLive ==
    /\ glVertexArrays = {vao_} \ {0}
    /\ glBuffers = {vertexbuffer_, indexbuffer_} \ {0}

\* ------------------------------------------------- claims on the TGA decoder
\* the file of the last createTexture call, read as the format lays it out
FileBytes == load.file.bytes

\* the file opens and starts with the 12 bytes sig
HasSignature(sig) ==
    load.file.opens /\ Len(FileBytes) >= 12 /\ SubSeq(FileBytes, 1, 12) = sig

\* the file opens, starts with the uncompressed signature and holds the
\* 6 descriptor bytes
HasDescriptor ==
    HasSignature(<<0, 0, 2, 0, 0, 0, 0, 0, 0, 0, 0, 0>>) /\ Len(FileBytes) >= 18

FileWidth == FileBytes[13] + 256 * FileBytes[14]

FileHeight == FileBytes[15] + 256 * FileBytes[16]

FileDepth == FileBytes[17]

FilePixels == SubSeq(FileBytes, 19, Len(FileBytes))

\* w * h * c <= n and w * h * c = n for w, h >= 1, without forming a product
\* larger than n
ProductAtMost(w, h, c, n) == w <= n /\ h <= n /\ w * h * c <= n

ProductIs(w, h, c, n) == w <= n /\ h <= n /\ w * h * c = n

\* C11: with the uncompressed signature, width > 0, height > 0 and 24 or 32
\* bits per pixel the decoder succeeds exactly when width*height*(bpp/8) pixel
\* bytes follow, with type RGB for 24 and RGBA for 32 bits; with fewer bytes
\* the result is empty.
C11_DecodeSucceeds ==
    (HasDescriptor /\ FileWidth > 0 /\ FileHeight > 0 /\ FileDepth \in {24, 32}) =>
        IF ProductAtMost(FileWidth, FileHeight, FileDepth \div 8, Len(FilePixels))
           THEN /\ load.image.data # <<>>
                /\ load.image.type = (IF FileDepth = 24 THEN GL_RGB ELSE GL_RGBA)
           ELSE load.image = EmptyImage

\* the file is one the decoder has to refuse: it does not open, the signature
\* or the descriptor is cut short, the signature is not the uncompressed one,
\* a dimension is zero, the bit depth is not 24 or 32, or fewer pixel bytes
\* follow than the dimensions need
MustFail ==
    \/ ~load.file.opens
    \/ ~HasDescriptor
    \/ FileWidth = 0 \/ FileHeight = 0
    \/ FileDepth \notin {24, 32}
    \/ ~ProductAtMost(FileWidth, FileHeight, FileDepth \div 8, Len(FilePixels))

\* C12: every failure of the decoder returns width 0, height 0, type 0 and an
\* empty buffer; none returns a result with some fields set.
C12_FailuresEmpty == MustFail => load.image = EmptyImage

\* C13: a returned image has a buffer of exactly width * height * channels
\* bytes, channels 3 for RGB and 4 for RGBA, for every 16-bit width and height.
C13_BufferLength ==
    load.image.data # <<>> =>
        ProductIs(load.image.width, load.image.height,
                  IF load.image.type = GL_RGB THEN 3 ELSE 4, Len(load.image.data))

\* C14: a file that starts with the run-length-compressed signature gives an
\* empty result whatever follows the signature.
C14_CompressedRejected ==
    HasSignature(<<0, 0, 10, 0, 0, 0, 0, 0, 0, 0, 0, 0>>) => load.image = EmptyImage

\* the compressed signature followed by the descriptor and pixel of a valid
\* 1 x 1 image
C14_Witness ==
    /\ HasSignature(<<0, 0, 10, 0, 0, 0, 0, 0, 0, 0, 0, 0>>)
    /\ Len(FileBytes) = 21 /\ FileDepth = 24
    /\ load.image = EmptyImage /\ textureID_ = 0

\* C15: a file with fewer than 12 bytes, or whose first 12 bytes differ in any
\* byte from 0,0,2,0,0,0,0,0,0,0,0,0, gives an empty result.
C15_SignatureExact ==
    (load.file.opens /\ ~HasSignature(<<0, 0, 2, 0, 0, 0, 0, 0, 0, 0, 0, 0>>)) =>
        load.image = EmptyImage

\* a signature that differs in its last byte only, followed by a valid
\* descriptor and pixel
C15_Witness ==
    /\ load.file.opens /\ Len(FileBytes) = 21
    /\ SubSeq(FileBytes, 1, 11) = <<0, 0, 2, 0, 0, 0, 0, 0, 0, 0, 0>>
    /\ FileBytes[12] = 1
    /\ load.image = EmptyImage

\* C16: with the uncompressed signature the result is empty when the width is
\* 0, the height is 0 or the bits per pixel are neither 24 nor 32, whatever
\* pixel bytes follow.
C16_BadDescriptorRejected ==
    (HasDescriptor /\ (FileWidth = 0 \/ FileHeight = 0 \/ FileDepth \notin {24, 32})) =>
        load.image = EmptyImage

\* width 1 and height 0 at 24 bits, with pixel bytes following
C16_Witness ==
    /\ HasDescriptor /\ FileWidth = 1 /\ FileHeight = 0 /\ FileDepth = 24
    /\ Len(FilePixels) >= 3
    /\ load.image = EmptyImage

\* C17: in a returned image each pixel group has the file's bytes 2 and 0 at
\* its offsets 0 and 2, the file's byte at offset 1 (and 3 at 32 bits)
\* unchanged, and the groups are in file order.
C17_RedBlueSwapped ==
    load.returned = "image" =>
        LET data == load.image.data
            channels == IF load.image.type = GL_RGB THEN 3 ELSE 4
        IN  \A cswap \in 0..(Len(data) - 1) :
                cswap % channels = 0 =>
                    /\ cswap + channels <= Len(data)
                    /\ At(data, cswap) = At(FilePixels, cswap + 2)
                    /\ At(data, cswap + 2) = At(FilePixels, cswap)
                    /\ At(data, cswap + 1) = At(FilePixels, cswap + 1)
                    /\ channels = 4 => At(data, cswap + 3) = At(FilePixels, cswap + 3)

\* ------------------------------------------- claims on the texture object
\* C24: a createTexture call whose decode fails generates no texture and
\* leaves id() as it was, while width(), height() and type() become 0; a
\* call whose decode succeeds leaves id() non-zero, so id() is non-zero
\* exactly when an earlier call succeeded.
C24_FailedLoadKeepsId ==
    [][ /\ MustFail' =>
              /\ textureID_' = textureID_
              /\ glTextures' = glTextures
              /\ image_'.width = 0 /\ image_'.height = 0 /\ image_'.type = 0
        /\ ~MustFail' => textureID_' # 0 ]_vars

\* ---------------------------------------------------- claims on the Shader
\* C25: createShader passes to glDeleteProgram only the handle an earlier
\* createShader on the same object stored in programID_; the first
\* createShader of an object built by either constructor deletes nothing;
\* and after every createShader exactly one program created by the object
\* is alive, the one programID_ names.
C25_DeletesOwnProgram ==
    /\ build.deleteArg # 0 =>
           (build.calls > 1 /\ build.deleteArg = build.prevStored)
    /\ build.calls = 1 => build.deleteArg = 0
    /\ build.calls >= 1 => (ownPrograms = {programID_} /\ programID_ \in glPrograms)

\* ---------------------------------------------- claims on the MouseRotator
\* C26: after any sequence of poll() calls phi() is in [0, 2*pi) and
\* theta() in [-pi/2, pi/2], and the angles change only in a poll where the
\* left button is pressed and was pressed at the poll before.
C26_AnglesInRange ==
    [][ /\ 0 <= phi_' /\ phi_' < 2 * PiUnits
        /\ -PiUnits <= 2 * theta_' /\ 2 * theta_' <= PiUnits
        /\ (phi_' # phi_ \/ theta_' # theta_) => (leftPressed_ /\ leftPressed_') ]_vars

====
